---- MODULE Spec2Model ----
(***************************************************************************)
(* AirWatch frontend (Laxus51/NASA-Space-Apps-Challenge).                  *)
(*                                                                         *)
(* Two parts are modelled:                                                 *)
(*   - the pure category classifier getAirQualityCategory of               *)
(*     frontend/src/api/airquality.js and the marker colouring of          *)
(*     MapView.jsx (specification SpecClassify);                           *)
(*   - the App component's state (the seven useState hooks), its two       *)
(*     handlers, the requests they leave in flight, and what DataCard and  *)
(*     MapView render from the state (specification Spec).                 *)
(*                                                                         *)
(* Numbers.  A PM2.5 concentration is held in tenths of a microgram per    *)
(* cubic metre: 14.9 is 149, 37.5 is 375, 82.5 is 825.  A JavaScript value *)
(* is a record tagged by kind: [kind |-> "number", tenths |-> n],          *)
(* [kind |-> "null"], [kind |-> "undefined"] or                            *)
(* [kind |-> "string", text |-> s].                                        *)
(***************************************************************************)
EXTENDS Integers, FiniteSets, Sequences, TLC

VARIABLES
    \* ---- classifier harness (SpecClassify) ----
    pm25,                 \* the argument last handed to getAirQualityCategory
    category,             \* what getAirQualityCategory returned for it
    \* ---- App.jsx state (Spec) ----
    selectedLocation,     \* useState(null): NoLocation or a location
    airQualityData,       \* useState(null): Null or a response body
    predictions,          \* useState(null): Null or a prediction response
    isLoading,            \* useState(false)
    isPredictionLoading,  \* useState(false)
    error,                \* useState(null): NoError or the error string
    predictionError,      \* useState(null)
    \* ---- the environment of App: promises not yet settled ----
    aqPending,            \* air-quality fetches in flight
    predPending,          \* prediction fetches in flight
    \* ---- history (ghost) variables ----
    requests,             \* how many fetches of each kind were issued
    actions               \* how many map clicks and button presses happened

vars == <<pm25, category, selectedLocation, airQualityData, predictions,
          isLoading, isPredictionLoading, error, predictionError,
          aqPending, predPending, requests, actions>>

classifyVars == <<pm25, category>>

appVars == <<selectedLocation, airQualityData, predictions, isLoading,
             isPredictionLoading, error, predictionError, aqPending,
             predPending, requests, actions>>

-----------------------------------------------------------------------------
(* JavaScript values *)

Num(t) == [kind |-> "number", tenths |-> t]

JsNull == [kind |-> "null"]

JsUndefined == [kind |-> "undefined"]

Str(s) == [kind |-> "string", text |-> s]

IsNumber(v) == v.kind = "number"

\* pm25 === null || pm25 === undefined
IsNullish(v) == v.kind \in {"null", "undefined"}

-----------------------------------------------------------------------------
(* Bounds *)

\* largest concentration classified, in tenths (90.0 ug/m3)
MaxPm25Tenths == 900

\* smallest concentration classified, in tenths (-1.0 ug/m3), stored negated
MinPm25Below == 10

Pm25Numbers == { Num(t) : t \in (0 - MinPm25Below)..MaxPm25Tenths }

Pm25Inputs == Pm25Numbers \cup {JsNull, JsUndefined}

-----------------------------------------------------------------------------
(* airquality.js: getAirQualityCategory *)

\* the four thresholds of the if/else chain, in tenths
GoodLimit == 150

ModerateLimit == 250

SensitiveLimit == 375

UnhealthyLimit == 750

Category(c, col) == [category |-> c, color |-> col]

\* the chain written with < in place of <=
getAirQualityCategoryStrict(v) ==
    IF IsNullish(v) THEN Category("Unknown", "bg-gray-500")
    ELSE IF v.tenths < GoodLimit THEN Category("Good", "bg-green-500")
    ELSE IF v.tenths < ModerateLimit THEN Category("Moderate", "bg-yellow-500")
    ELSE IF v.tenths < SensitiveLimit
         THEN Category("Unhealthy for Sensitive", "bg-orange-500")
    ELSE IF v.tenths < UnhealthyLimit THEN Category("Unhealthy", "bg-red-500")
    ELSE Category("Very Unhealthy", "bg-purple-600")

\* the third threshold written 35 in place of 37.5
getAirQualityCategoryThreshold(v) ==
    IF IsNullish(v) THEN Category("Unknown", "bg-gray-500")
    ELSE IF v.tenths <= GoodLimit THEN Category("Good", "bg-green-500")
    ELSE IF v.tenths <= ModerateLimit THEN Category("Moderate", "bg-yellow-500")
    ELSE IF v.tenths <= SensitiveLimit - 25
         THEN Category("Unhealthy for Sensitive", "bg-orange-500")
    ELSE IF v.tenths <= UnhealthyLimit THEN Category("Unhealthy", "bg-red-500")
    ELSE Category("Very Unhealthy", "bg-purple-600")

\* the null test written as a falsy test, if (!pm25)
getAirQualityCategoryFalsy(v) ==
    IF IsNullish(v) \/ (IsNumber(v) /\ v.tenths = 0)
    THEN Category("Unknown", "bg-gray-500")
    ELSE IF v.tenths <= GoodLimit THEN Category("Good", "bg-green-500")
    ELSE IF v.tenths <= ModerateLimit THEN Category("Moderate", "bg-yellow-500")
    ELSE IF v.tenths <= SensitiveLimit
         THEN Category("Unhealthy for Sensitive", "bg-orange-500")
    ELSE IF v.tenths <= UnhealthyLimit THEN Category("Unhealthy", "bg-red-500")
    ELSE Category("Very Unhealthy", "bg-purple-600")

\* the returns of the second and third branch exchanged
getAirQualityCategorySwapped(v) ==
    IF IsNullish(v) THEN Category("Unknown", "bg-gray-500")
    ELSE IF v.tenths <= GoodLimit THEN Category("Good", "bg-green-500")
    ELSE IF v.tenths <= ModerateLimit
         THEN Category("Unhealthy for Sensitive", "bg-orange-500")
    ELSE IF v.tenths <= SensitiveLimit THEN Category("Moderate", "bg-yellow-500")
    ELSE IF v.tenths <= UnhealthyLimit THEN Category("Unhealthy", "bg-red-500")
    ELSE Category("Very Unhealthy", "bg-purple-600")

getAirQualityCategory(v) ==
    IF IsNullish(v) THEN Category("Unknown", "bg-gray-500")
    ELSE IF v.tenths <= GoodLimit THEN Category("Good", "bg-green-500")
    ELSE IF v.tenths <= ModerateLimit THEN Category("Moderate", "bg-yellow-500")
    ELSE IF v.tenths <= SensitiveLimit
         THEN Category("Unhealthy for Sensitive", "bg-orange-500")
    ELSE IF v.tenths <= UnhealthyLimit THEN Category("Unhealthy", "bg-red-500")
    ELSE Category("Very Unhealthy", "bg-purple-600")

\* position of a band in the order of increasing severity
Severity(c) ==
    CASE c = "Good" -> 1
      [] c = "Moderate" -> 2
      [] c = "Unhealthy for Sensitive" -> 3
      [] c = "Unhealthy" -> 4
      [] c = "Very Unhealthy" -> 5
      [] OTHER -> 0

-----------------------------------------------------------------------------
(* The classifier on its own: every step hands it one more argument *)

InitClassifier ==
    /\ pm25 \in Pm25Inputs
    /\ category = getAirQualityCategory(pm25)

Classify ==
    \E v \in Pm25Inputs :
        /\ pm25' = v
        /\ category' = getAirQualityCategory(v)

-----------------------------------------------------------------------------
(* Bounds of the App model *)

\* distinct map positions the user can click
MaxLocations == 2

\* map clicks in one run
MaxSelections == 3

\* presses of the Generate button in one run
MaxGenerates == 2

Locations == 1..MaxLocations

\* selectedLocation before the first click: useState(null)
NoLocation == 0

-----------------------------------------------------------------------------
(* What the backend can answer *)

\* PM2.5 readings a station response carries
ResponsePm25 == {JsNull, Num(0), Num(825)}

WeatherPresent ==
    [temperature_celsius |-> Num(215), relative_humidity |-> Num(645),
     wind_speed |-> Num(32), weather_time |-> TRUE]

WeatherNull ==
    [temperature_celsius |-> JsNull, relative_humidity |-> JsNull,
     wind_speed |-> JsNull, weather_time |-> FALSE]

\* a body with a station; forLoc records the request it answers
StationBody(l, p, w, warn) ==
    [station_name |-> TRUE, message |-> FALSE, pm25 |-> p, weather |-> w,
     warning |-> warn, forLoc |-> l]

\* {"message": "No station found within 25 km"}: every other field is absent
NotFoundBody(l) ==
    [station_name |-> FALSE, message |-> TRUE, pm25 |-> JsUndefined,
     weather |-> [temperature_celsius |-> JsUndefined,
                  relative_humidity |-> JsUndefined,
                  wind_speed |-> JsUndefined, weather_time |-> FALSE],
     warning |-> FALSE, forLoc |-> l]

AirQualityBodies(l) ==
    { StationBody(l, p, WeatherPresent, FALSE) : p \in ResponsePm25 }
    \cup { StationBody(l, p, WeatherNull, warn) :
             p \in ResponsePm25, warn \in BOOLEAN }
    \cup { NotFoundBody(l) }

Horizons == {"1h", "6h", "12h", "24h"}

\* a prediction response: DataCard reads status and predictions; the
\* statuses success, partial and failed and the marker of a failed horizon
\* (here null) are those of the backend's contract
PredictionBody(l, st, failed) ==
    [status |-> st,
     predictions |-> [h \in Horizons |->
                        IF h \in failed THEN JsNull
                        ELSE IF h = "1h" THEN Num(0) ELSE Num(262)],
     forLoc |-> l]

PredictionBodies(l) ==
    { PredictionBody(l, "success", {}),
      PredictionBody(l, "partial", {"6h"}),
      PredictionBody(l, "failed", Horizons) }

\* the useState(null) values
NoData == JsNull

NoPredictions == JsNull

NoError == JsNull

-----------------------------------------------------------------------------
(* App.jsx *)

Init ==
    /\ selectedLocation = NoLocation
    /\ airQualityData = NoData
    /\ predictions = NoPredictions
    /\ isLoading = FALSE
    /\ isPredictionLoading = FALSE
    /\ error = NoError
    /\ predictionError = NoError
    /\ aqPending = {}
    /\ predPending = {}
    /\ requests = [aq |-> 0, pred |-> 0]
    /\ actions = [selects |-> 0, generates |-> 0]
    /\ pm25 = JsUndefined
    /\ category = getAirQualityCategory(JsUndefined)

\* airquality.js fetchAirQualityData: one GET, left in flight; a fetch is
\* numbered in the order of issue, the n-th air-quality fetch having id n
fetchAirQualityData(l) ==
    /\ aqPending' = aqPending \cup {[id |-> requests.aq + 1, loc |-> l]}
    /\ requests' = [requests EXCEPT !.aq = @ + 1]

\* airquality.js fetchPredictionsFromCoordinates: one POST, left in flight
fetchPredictionsFromCoordinates(l) ==
    /\ predPending' = predPending \cup {[id |-> requests.pred + 1, loc |-> l]}
    /\ requests' = [requests EXCEPT !.pred = @ + 1]

\* handleLocationSelect fetching the predictions along with the reading
handleLocationSelectAndPredict(l) ==
    /\ selectedLocation' = l
    /\ isLoading' = TRUE
    /\ error' = NoError
    /\ airQualityData' = NoData
    /\ predictions' = NoPredictions
    /\ predictionError' = NoError
    /\ aqPending' = aqPending \cup {[id |-> requests.aq + 1, loc |-> l]}
    /\ predPending' = predPending \cup {[id |-> requests.pred + 1, loc |-> l]}
    /\ requests' = [aq |-> requests.aq + 1, pred |-> requests.pred + 1]
    /\ UNCHANGED isPredictionLoading

\* handleLocationSelect also resetting the prediction loading flag
handleLocationSelectResetsLoading(l) ==
    /\ selectedLocation' = l
    /\ isLoading' = TRUE
    /\ error' = NoError
    /\ airQualityData' = NoData
    /\ predictions' = NoPredictions
    /\ predictionError' = NoError
    /\ isPredictionLoading' = FALSE
    /\ fetchAirQualityData(l)
    /\ UNCHANGED predPending

\* handleLocationSelect up to its await (App.jsx 15-25)
handleLocationSelect(l) ==
    /\ selectedLocation' = l
    /\ isLoading' = TRUE
    /\ error' = NoError
    /\ airQualityData' = NoData
    /\ predictions' = NoPredictions
    /\ predictionError' = NoError
    /\ fetchAirQualityData(l)
    /\ UNCHANGED <<isPredictionLoading, predPending>>

\* handleLocationSelect after its await, the fetch having resolved
\* (App.jsx 26, 31-33)
AirQualityResolved(r, body) ==
    /\ r \in aqPending
    /\ airQualityData' = body
    /\ isLoading' = FALSE
    /\ aqPending' = aqPending \ {r}
    /\ UNCHANGED <<selectedLocation, predictions, isPredictionLoading, error,
                   predictionError, predPending, requests, actions, classifyVars>>

\* the catch branch issuing the fetch again in place of reporting the failure
AirQualityRejectedRetry(r) ==
    /\ r \in aqPending
    /\ requests.aq <= MaxSelections
    /\ aqPending' = (aqPending \ {r}) \cup {[id |-> requests.aq + 1, loc |-> r.loc]}
    /\ requests' = [requests EXCEPT !.aq = @ + 1]
    /\ UNCHANGED <<selectedLocation, airQualityData, predictions, isLoading,
                   isPredictionLoading, error, predictionError, predPending,
                   actions, classifyVars>>

\* the catch branch without the finally branch: isLoading is left as it is
AirQualityRejectedNoFinally(r) ==
    /\ r \in aqPending
    /\ error' = Str("Failed to fetch air quality data")
    /\ aqPending' = aqPending \ {r}
    /\ UNCHANGED <<selectedLocation, airQualityData, predictions, isLoading,
                   isPredictionLoading, predictionError, predPending, requests,
                   actions, classifyVars>>

\* handleLocationSelect after its await, the fetch having thrown: a non-OK
\* status or a network failure (airquality.js 13-15, 19-22; App.jsx 28-33)
AirQualityRejected(r) ==
    /\ r \in aqPending
    /\ error' = Str("Failed to fetch air quality data")
    /\ isLoading' = FALSE
    /\ aqPending' = aqPending \ {r}
    /\ UNCHANGED <<selectedLocation, airQualityData, predictions,
                   isPredictionLoading, predictionError, predPending, requests,
                   actions, classifyVars>>

\* handleGeneratePredictions without its first line: with no location the
\* destructuring of null throws inside the try, so the catch and the finally
\* branch run at once
handleGeneratePredictionsNoGuard ==
    IF selectedLocation = NoLocation
    THEN /\ isPredictionLoading' = FALSE
         /\ predictionError' = Str("Failed to generate predictions")
         /\ predictions' = NoPredictions
         /\ UNCHANGED <<selectedLocation, airQualityData, isLoading, error,
                        aqPending, predPending, requests>>
    ELSE /\ isPredictionLoading' = TRUE
         /\ predictionError' = NoError
         /\ predictions' = NoPredictions
         /\ fetchPredictionsFromCoordinates(selectedLocation)
         /\ UNCHANGED <<selectedLocation, airQualityData, isLoading, error,
                        aqPending>>

\* handleGeneratePredictions up to its await (App.jsx 36-45)
handleGeneratePredictions ==
    IF selectedLocation = NoLocation
    THEN UNCHANGED <<selectedLocation, airQualityData, predictions, isLoading,
                     isPredictionLoading, error, predictionError, aqPending,
                     predPending, requests>>
    ELSE /\ isPredictionLoading' = TRUE
         /\ predictionError' = NoError
         /\ predictions' = NoPredictions
         /\ fetchPredictionsFromCoordinates(selectedLocation)
         /\ UNCHANGED <<selectedLocation, airQualityData, isLoading, error,
                        aqPending>>

\* handleGeneratePredictions after its await, resolved (App.jsx 46, 51-53)
PredictionsResolved(r, body) ==
    /\ r \in predPending
    /\ predictions' = body
    /\ isPredictionLoading' = FALSE
    /\ predPending' = predPending \ {r}
    /\ UNCHANGED <<selectedLocation, airQualityData, isLoading, error,
                   predictionError, aqPending, requests, actions, classifyVars>>

\* handleGeneratePredictions after its await, thrown (App.jsx 48-53)
PredictionsRejected(r) ==
    /\ r \in predPending
    /\ predictionError' = Str("Failed to generate predictions")
    /\ isPredictionLoading' = FALSE
    /\ predPending' = predPending \ {r}
    /\ UNCHANGED <<selectedLocation, airQualityData, predictions, isLoading,
                   error, aqPending, requests, actions, classifyVars>>

-----------------------------------------------------------------------------
(* DataCard.jsx *)

\* 10^n
RECURSIVE Pow10(_)
Pow10(n) == IF n = 0 THEN 1 ELSE 10 * Pow10(n - 1)

\* Number.prototype.toFixed on a value held in tenths: the integer made of
\* the digits printed; with no decimals a tie rounds away from zero
ToFixed(t, decimals) ==
    IF decimals >= 1 THEN t * Pow10(decimals - 1)
    ELSE IF t >= 0 THEN (t + 5) \div 10
    ELSE 0 - ((5 - t) \div 10)

\* formatValue (DataCard.jsx 64-70)
formatValue(value, unit, decimals) ==
    IF IsNullish(value) THEN [text |-> "N/A"]
    ELSE IF IsNumber(value)
         THEN [text |-> "number", digits |-> ToFixed(value.tenths, decimals),
               decimals |-> decimals, unit |-> unit]
    ELSE [text |-> value.text, unit |-> unit]

\* what every early return of DataCard leaves out
BlankCard(view) ==
    [view |-> view, station |-> "none", message |-> FALSE, badge |-> "none",
     badgeValue |-> "none", pm25 |-> "none", temperature |-> "none",
     humidity |-> "none", wind |-> "none", button |-> "none",
     predictionError |-> "none", predictionsPanel |-> "none",
     warning |-> FALSE]

\* the prediction panel: one cell per entry of predictions.predictions
\* (DataCard.jsx 190-203)
PredictionCells(pred) ==
    [h \in DOMAIN pred.predictions |->
        [value |-> pred.predictions[h],
         badge |-> getAirQualityCategory(pred.predictions[h]).category]]

\* the data view (DataCard.jsx 54, 72-234)
DataView(data, preds, predLoading, predError) ==
    [view |-> "Data",
     station |-> IF data.station_name THEN "station" ELSE "noStation",
     message |-> IF data.station_name THEN FALSE ELSE data.message,
     badge |-> IF ~IsNullish(data.pm25)
               THEN getAirQualityCategory(data.pm25).category ELSE "none",
     badgeValue |-> IF ~IsNullish(data.pm25)
                    THEN formatValue(data.pm25, "ug/m3", 1) ELSE "none",
     pm25 |-> formatValue(data.pm25, "ug/m3", 1),
     temperature |-> formatValue(data.weather.temperature_celsius, "C", 1),
     humidity |-> formatValue(data.weather.relative_humidity, "%", 0),
     wind |-> formatValue(data.weather.wind_speed, "m/s", 1),
     button |-> IF predLoading THEN "disabled" ELSE "enabled",
     predictionError |-> IF predError # NoError THEN predError.text ELSE "none",
     predictionsPanel |-> IF preds # NoPredictions /\ preds.status = "success"
                          THEN PredictionCells(preds) ELSE "none",
     warning |-> data.warning]

\* DataCard (DataCard.jsx 4-235): the early returns in their order
DataCard(data, loading, err, location, preds, predLoading, predError) ==
    IF location = NoLocation THEN BlankCard("Prompt")
    ELSE IF loading THEN BlankCard("Loading")
    ELSE IF err # NoError THEN BlankCard("Error")
    ELSE IF data = NoData THEN BlankCard("NoData")
    ELSE DataView(data, preds, predLoading, predError)

\* the card App renders from its state (App.jsx 109-118)
Card ==
    DataCard(airQualityData, isLoading, error, selectedLocation, predictions,
             isPredictionLoading, predictionError)

-----------------------------------------------------------------------------
(* MapView.jsx *)

\* !airQualityData.pm25: null, undefined and 0 are falsy
IsFalsy(v) == IsNullish(v) \/ (IsNumber(v) /\ v.tenths = 0)

\* getMarkerIcon (MapView.jsx 66-81): the colour of the marker
getMarkerIcon(data) ==
    IF data = NoData \/ IsFalsy(data.pm25) THEN "#6b7280"
    ELSE IF data.pm25.tenths <= GoodLimit THEN "#10b981"
    ELSE IF data.pm25.tenths <= ModerateLimit THEN "#f59e0b"
    ELSE IF data.pm25.tenths <= SensitiveLimit THEN "#f97316"
    ELSE IF data.pm25.tenths <= UnhealthyLimit THEN "#ef4444"
    ELSE "#8b5cf6"

\* the band a marker colour stands for: the comments of getMarkerIcon name
\* the colours gray, green, yellow, orange, red and purple, which are the
\* colours of the bands in getAirQualityCategory
MarkerBand(colour) ==
    CASE colour = "#6b7280" -> "Unknown"
      [] colour = "#10b981" -> "Good"
      [] colour = "#f59e0b" -> "Moderate"
      [] colour = "#f97316" -> "Unhealthy for Sensitive"
      [] colour = "#ef4444" -> "Unhealthy"
      [] colour = "#8b5cf6" -> "Very Unhealthy"

\* the map App renders from its state (App.jsx 98-103, MapView.jsx 86, 131-135)
Map ==
    [overlay |-> isLoading,
     marker |-> IF selectedLocation = NoLocation THEN "none"
                ELSE getMarkerIcon(airQualityData)]

-----------------------------------------------------------------------------
(* The user and the network *)

\* a click on the map (MapView.jsx 25-33, 61-63): always possible
MapClick(l) ==
    /\ actions.selects < MaxSelections
    /\ actions' = [actions EXCEPT !.selects = @ + 1]
    /\ handleLocationSelect(l)
    /\ UNCHANGED classifyVars

\* a press of the Generate button (DataCard.jsx 152-154): possible when the
\* button is rendered and not disabled
GenerateClick ==
    /\ Card.button = "enabled"
    /\ actions.generates < MaxGenerates
    /\ actions' = [actions EXCEPT !.generates = @ + 1]
    /\ handleGeneratePredictions
    /\ UNCHANGED classifyVars

Next ==
    \/ \E l \in Locations : MapClick(l)
    \/ GenerateClick
    \/ \E r \in aqPending : \E body \in AirQualityBodies(r.loc) :
           AirQualityResolved(r, body)
    \/ \E r \in aqPending : AirQualityRejected(r)
    \/ \E r \in predPending : \E body \in PredictionBodies(r.loc) :
           PredictionsResolved(r, body)
    \/ \E r \in predPending : PredictionsRejected(r)

Spec == Init /\ [][Next]_vars

\* the continuation of some handleLocationSelect call runs
SettleAirQuality ==
    \E r \in aqPending :
        \/ \E body \in AirQualityBodies(r.loc) : AirQualityResolved(r, body)
        \/ AirQualityRejected(r)

\* the continuation of some handleGeneratePredictions call runs
SettlePredictions ==
    \E r \in predPending :
        \/ \E body \in PredictionBodies(r.loc) : PredictionsResolved(r, body)
        \/ PredictionsRejected(r)

\* every request that was issued settles, and the continuation awaiting it
\* runs
Settling == WF_vars(SettleAirQuality) /\ WF_vars(SettlePredictions)

\* the App under the assumption that every issued request settles
FairSpec == Spec /\ Settling

\* the server never answers the fetch r: fetch is called with no signal and no
\* timer is set (airquality.js 11), so the promise never settles and no
\* continuation of handleLocationSelect ever runs for r
AirQualityNeverAnswered(r) ==
    /\ r \in aqPending
    /\ aqPending' = aqPending \ {r}
    /\ UNCHANGED <<selectedLocation, airQualityData, predictions, isLoading,
                   isPredictionLoading, error, predictionError, predPending,
                   requests, actions, classifyVars>>

\* the same for a prediction fetch (airquality.js 33-39)
PredictionsNeverAnswered(r) ==
    /\ r \in predPending
    /\ predPending' = predPending \ {r}
    /\ UNCHANGED <<selectedLocation, airQualityData, predictions, isLoading,
                   isPredictionLoading, error, predictionError, aqPending,
                   requests, actions, classifyVars>>

NextSilent ==
    \/ Next
    \/ \E r \in aqPending : AirQualityNeverAnswered(r)
    \/ \E r \in predPending : PredictionsNeverAnswered(r)

\* the App on a network that may leave a request unanswered for ever; every
\* request that is answered settles
SpecSilent == Init /\ [][NextSilent]_vars /\ Settling

\* direct calls of handleGeneratePredictions in one run
MaxDirectCalls == 1

\* handleGeneratePredictions called as a function while no location is
\* selected: the card then renders no button, so no press can make this call
DirectGenerate ==
    /\ selectedLocation = NoLocation
    /\ actions.generates < MaxDirectCalls
    /\ actions' = [actions EXCEPT !.generates = @ + 1]
    /\ handleGeneratePredictions
    /\ UNCHANGED classifyVars

NextDirect == Next \/ DirectGenerate

\* the App with its prediction handler also called directly
SpecDirect == Init /\ [][NextDirect]_vars

NextClassify == Classify /\ UNCHANGED appVars

InitClassify ==
    /\ InitClassifier
    /\ selectedLocation = NoLocation
    /\ airQualityData = NoData
    /\ predictions = NoPredictions
    /\ isLoading = FALSE
    /\ isPredictionLoading = FALSE
    /\ error = NoError
    /\ predictionError = NoError
    /\ aqPending = {}
    /\ predPending = {}
    /\ requests = [aq |-> 0, pred |-> 0]
    /\ actions = [selects |-> 0, generates |-> 0]

SpecClassify == InitClassify /\ [][NextClassify]_vars

-----------------------------------------------------------------------------
(* README.md, "Air Quality Categories": the documented table *)

\* the bands whose documented range holds a value strictly inside it
\* (README.md 185-190); a value on a threshold is in no open range, and the
\* first range starts at 0, so a value below 0 is in no documented range
TableBands(t) ==
    { b \in {"Good", "Moderate", "Unhealthy for Sensitive", "Unhealthy",
             "Very Unhealthy"} :
        \/ b = "Good" /\ 0 <= t /\ t < GoodLimit
        \/ b = "Moderate" /\ GoodLimit < t /\ t < ModerateLimit
        \/ b = "Unhealthy for Sensitive" /\ ModerateLimit < t /\ t < SensitiveLimit
        \/ b = "Unhealthy" /\ SensitiveLimit < t /\ t < UnhealthyLimit
        \/ b = "Very Unhealthy" /\ UnhealthyLimit < t }

Thresholds == {GoodLimit, ModerateLimit, SensitiveLimit, UnhealthyLimit}

-----------------------------------------------------------------------------
(* Claims about the classifier, checked under SpecClassify *)

\* C1 as stated: the upper bound of each band is exclusive, so a value on a
\* threshold is classified into the more severe band: 14.9 is Good, 15 is
\* Moderate, 25 is Unhealthy for Sensitive, 37.5 is Unhealthy and 75 is Very
\* Unhealthy.
C1_ExclusiveUpperBound ==
    /\ pm25 = Num(GoodLimit - 1) => category.category = "Good"
    /\ pm25 = Num(GoodLimit) => category.category = "Moderate"
    /\ pm25 = Num(ModerateLimit) => category.category = "Unhealthy for Sensitive"
    /\ pm25 = Num(SensitiveLimit) => category.category = "Unhealthy"
    /\ pm25 = Num(UnhealthyLimit) => category.category = "Very Unhealthy"

\* C1 as amended: the upper bound of each band is inclusive, so a value on a
\* threshold is classified into the less severe band (15 is Good, 25 is
\* Moderate, 37.5 is Unhealthy for Sensitive, 75 is Unhealthy), and the value
\* one tenth above a threshold into the more severe one; 14.9 is Good.
C1_InclusiveUpperBound ==
    /\ pm25 = Num(GoodLimit - 1) => category.category = "Good"
    /\ pm25 = Num(GoodLimit) => category.category = "Good"
    /\ pm25 = Num(GoodLimit + 1) => category.category = "Moderate"
    /\ pm25 = Num(ModerateLimit) => category.category = "Moderate"
    /\ pm25 = Num(ModerateLimit + 1)
         => category.category = "Unhealthy for Sensitive"
    /\ pm25 = Num(SensitiveLimit)
         => category.category = "Unhealthy for Sensitive"
    /\ pm25 = Num(SensitiveLimit + 1) => category.category = "Unhealthy"
    /\ pm25 = Num(UnhealthyLimit) => category.category = "Unhealthy"
    /\ pm25 = Num(UnhealthyLimit + 1) => category.category = "Very Unhealthy"

\* 15 has been classified, as Good
C1_Witness == pm25 = Num(GoodLimit) /\ category.category = "Good"

\* C2: a number that is on no threshold is classified Good below 15, Moderate
\* between 15 and 25, Unhealthy for Sensitive between 25 and 37.5, Unhealthy
\* between 37.5 and 75 and Very Unhealthy above 75; wherever the README table
\* documents a range for the value (from 0 up) it documents exactly one, and
\* the classifier returns the band of that range.
C2_DocumentedTable ==
    (IsNumber(pm25) /\ pm25.tenths \notin Thresholds)
        => LET t == pm25.tenths
               c == category.category
           IN  /\ t < GoodLimit => c = "Good"
               /\ (GoodLimit < t /\ t < ModerateLimit) => c = "Moderate"
               /\ (ModerateLimit < t /\ t < SensitiveLimit)
                     => c = "Unhealthy for Sensitive"
               /\ (SensitiveLimit < t /\ t < UnhealthyLimit) => c = "Unhealthy"
               /\ UnhealthyLimit < t => c = "Very Unhealthy"
               /\ TableBands(t) \subseteq {c}
               /\ t >= 0 => TableBands(t) = {c}

\* 82.5 has been classified, as Very Unhealthy
C2_Witness == pm25 = Num(825) /\ category.category = "Very Unhealthy"

\* C3: null and undefined are classified Unknown, and no number is.
C3_UnknownIffNullish ==
    /\ IsNullish(pm25) => category.category = "Unknown"
    /\ IsNumber(pm25) => category.category # "Unknown"

\* null has been classified
C3_Witness == pm25 = JsNull /\ category.category = "Unknown"

\* C4: when the classifier is handed a number and then a number at least as
\* large, the second band is at least as severe as the first.
C4_Monotonic ==
    [][(IsNumber(pm25) /\ IsNumber(pm25') /\ pm25.tenths <= pm25'.tenths)
         => Severity(category.category) <= Severity(category'.category)]_vars

\* a number above the last threshold has been classified
C4_Witness ==
    /\ IsNumber(pm25)
    /\ pm25.tenths > UnhealthyLimit
    /\ Severity(category.category) = 5

-----------------------------------------------------------------------------
(* Claims about the App, checked under Spec *)

\* C5 as stated: whatever PM2.5 value the state holds, the band of the
\* DataCard badge, the band of every prediction cell and the band the marker
\* colour stands for are the band getAirQualityCategory returns for it.
C5_SingleSourceOfTruth ==
    /\ (selectedLocation # NoLocation /\ airQualityData # NoData)
         => MarkerBand(Map.marker)
              = getAirQualityCategory(airQualityData.pm25).category
    /\ (Card.view = "Data" /\ Card.badge # "none")
         => Card.badge = getAirQualityCategory(airQualityData.pm25).category
    /\ (Card.view = "Data" /\ Card.predictionsPanel # "none")
         => \A h \in DOMAIN Card.predictionsPanel :
               Card.predictionsPanel[h].badge
                 = getAirQualityCategory(predictions.predictions[h]).category

\* the request issued by the latest location selection
IsLatestSelection(r) == r.id = requests.aq

\* C6 as stated: when the request of the latest selection completes, a
\* not-found response ends with error null and the card showing the No
\* Station Found panel with the message, and a failure ends with error set and
\* the card showing the Error view.
C6_NotFoundVersusUnavailable ==
    [][/\ \A r \in aqPending :
             (IsLatestSelection(r) /\ AirQualityResolved(r, NotFoundBody(r.loc)))
               => /\ error' = NoError
                  /\ Card'.view = "Data"
                  /\ Card'.station = "noStation"
                  /\ Card'.message
       /\ \A r \in aqPending :
             (IsLatestSelection(r) /\ AirQualityRejected(r))
               => /\ error' # NoError
                  /\ Card'.view = "Error"]_vars

\* C7 as stated: when the request of the latest selection is answered with a
\* station, a PM2.5 number and null weather fields, the app ends with error
\* null and the card showing the value, its category, N/A for each weather
\* field and the warning, not the Error view.
C7_WeatherDegradation ==
    [][\A r \in aqPending : \A p \in ResponsePm25 : \A warn \in BOOLEAN :
          (IsNumber(p) /\ IsLatestSelection(r)
             /\ AirQualityResolved(r, StationBody(r.loc, p, WeatherNull, warn)))
            => /\ error' = NoError
               /\ Card'.view = "Data"
               /\ Card'.badge = getAirQualityCategory(p).category
               /\ Card'.pm25 = formatValue(p, "ug/m3", 1)
               /\ Card'.temperature = [text |-> "N/A"]
               /\ Card'.humidity = [text |-> "N/A"]
               /\ Card'.wind = [text |-> "N/A"]
               /\ Card'.warning = warn]_vars

\* C8 as stated: in the data view a stored prediction response of status
\* partial is displayed as one of status success is: the panel is there, with
\* a cell for every horizon that carries a value, and no prediction error.
C8_PartialIsDisplayed ==
    (Card.view = "Data" /\ predictions # NoPredictions
       /\ predictions.status \in {"success", "partial"})
      => /\ Card.predictionsPanel # "none"
         /\ \A h \in Horizons :
               IsNumber(predictions.predictions[h])
                 => Card.predictionsPanel[h].value = predictions.predictions[h]
         /\ Card.predictionError = "none"

\* C9 as stated: whenever airQualityData is non-null it answers the request
\* made for the current selectedLocation.
C9_DataIsForSelectedLocation ==
    airQualityData # NoData => airQualityData.forLoc = selectedLocation

\* C10: a map click issues exactly one air-quality request and no prediction
\* request; a prediction request is issued only by a press of the Generate
\* button; and the prediction requests issued never outnumber the presses.
C10_PredictionsOnDemand ==
    /\ [](requests.pred <= actions.generates)
    /\ [][/\ actions'.selects # actions.selects
             => /\ requests'.aq = requests.aq + 1
                /\ Cardinality(aqPending') = Cardinality(aqPending) + 1
                /\ requests'.pred = requests.pred
                /\ predPending' = predPending
          /\ (requests'.pred # requests.pred \/ predPending' \ predPending # {})
             => /\ actions'.generates = actions.generates + 1
                /\ actions'.selects = actions.selects]_vars

\* a location was selected, its data arrived, and a press of the button has
\* put a prediction request in flight
C10_Witness ==
    /\ actions.selects >= 1
    /\ actions.generates >= 1
    /\ requests.pred >= 1
    /\ predPending # {}

\* C11: every map click and every press of the button issues exactly one
\* request; a step that is not a click or a press issues none; and the step
\* that delivers a failure sets the matching error state at once.
C11_NoRetry ==
    /\ [](requests.aq = actions.selects /\ requests.pred = actions.generates)
    /\ [][/\ actions' = actions
             => /\ requests' = requests
                /\ aqPending' \subseteq aqPending
                /\ predPending' \subseteq predPending
          /\ \A r \in aqPending :
                AirQualityRejected(r) => error' # NoError /\ ~isLoading'
          /\ \A r \in predPending :
                PredictionsRejected(r)
                  => predictionError' # NoError /\ ~isPredictionLoading']_vars

\* a request of each kind has failed, and nothing was issued in its place
C11_Witness ==
    /\ error # NoError
    /\ predictionError # NoError
    /\ aqPending = {}
    /\ predPending = {}
    /\ requests.aq = actions.selects
    /\ requests.pred = actions.generates

\* C13 as stated: whenever predictions is non-null it answers a prediction
\* request made for the current selectedLocation.
C13_PredictionsAreForSelectedLocation ==
    predictions # NoPredictions => predictions.forLoc = selectedLocation

\* C14 as stated: isLoading is true whenever the air-quality request of the
\* latest selection is still in flight.
C14_LoadingWhileLatestPending ==
    (\E r \in aqPending : IsLatestSelection(r)) => isLoading

\* C15 as stated: error and airQualityData are never both non-null.
C15_ErrorOrDataNotBoth ==
    ~(error # NoError /\ airQualityData # NoData)

\* C16: at most one prediction request is in flight; the Generate button is
\* rendered only in the data view (a location selected, not loading, no error,
\* data present) and can be pressed only while isPredictionLoading is false;
\* and isPredictionLoading is true for as long as a prediction request is in
\* flight, a new location selection included.
C16_OnePredictionInFlight ==
    /\ Cardinality(predPending) <= 1
    /\ predPending # {} => isPredictionLoading
    /\ Card.button # "none"
         => /\ selectedLocation # NoLocation
            /\ ~isLoading
            /\ error = NoError
            /\ airQualityData # NoData
    /\ Card.button = "enabled" => ~isPredictionLoading
    /\ (Card.view = "Data" /\ isPredictionLoading) => Card.button = "disabled"

\* a prediction request made for one location is still in flight after
\* another location was selected and its data arrived: the button is there,
\* disabled
C16_Witness ==
    /\ \E r \in predPending : r.loc # selectedLocation
    /\ isPredictionLoading
    /\ Card.button = "disabled"

-----------------------------------------------------------------------------
(* Claims about handleGeneratePredictions as a function, under SpecDirect *)

\* C17: a call of handleGeneratePredictions and the settlement of its request
\* leave selectedLocation, airQualityData, error and isLoading unchanged; a
\* call with no location selected issues no request and changes no state.
C17_GenerateFrame ==
    [][/\ (actions'.generates # actions.generates \/ predPending' # predPending)
             => UNCHANGED <<selectedLocation, airQualityData, error, isLoading>>
       /\ (actions'.generates # actions.generates /\ selectedLocation = NoLocation)
             => UNCHANGED <<selectedLocation, airQualityData, predictions,
                            isLoading, isPredictionLoading, error,
                            predictionError, aqPending, predPending,
                            requests>>]_vars

\* the handler was called with no location selected, and later a request it
\* issued for a selected location has settled
C17_Witness ==
    /\ actions.generates >= 2
    /\ requests.pred = 1
    /\ predPending = {}
    /\ predictions # NoPredictions

-----------------------------------------------------------------------------
(* Claims about requests that never settle, or always do *)

\* C12 as stated, under SpecSilent: a request whose response never arrives
\* ends all the same, its loading flag returning to false.
C12_TimeoutEndsRequest ==
    /\ isLoading ~> ~isLoading
    /\ isPredictionLoading ~> ~isPredictionLoading

\* C18, under FairSpec: if every issued request settles, a state with both
\* loading flags false is always reached again; the step that settles an
\* air-quality request leaves airQualityData or error set and isLoading false,
\* and the step that settles a prediction request leaves isPredictionLoading
\* false.
C18_EventuallyIdle ==
    /\ (isLoading \/ isPredictionLoading)
          ~> (~isLoading /\ ~isPredictionLoading)
    /\ [][/\ (aqPending' # aqPending /\ aqPending' \subseteq aqPending)
                => /\ airQualityData' # NoData \/ error' # NoError
                   /\ ~isLoading'
          /\ (predPending' # predPending /\ predPending' \subseteq predPending)
                => ~isPredictionLoading']_vars

\* a request of each kind was issued, an air-quality request failed,
\* everything has settled and both flags are false
C18_Witness ==
    /\ requests.aq >= 1
    /\ requests.pred >= 1
    /\ error # NoError
    /\ aqPending = {}
    /\ predPending = {}
    /\ ~isLoading
    /\ ~isPredictionLoading

====
